---- MODULE Spec2Model ----
(***************************************************************************)
(* Consul quorum verification and remediation of the SAS Viya 4 restart    *)
(* automation: verify_consul_pods() of viya4_environment_restart.py with    *)
(* its nested check_consul_health() and remediate_consul().                 *)
(*                                                                         *)
(* Every kubectl invocation is one step whose outcome (exit status, JSON    *)
(* well-formedness, listed pods, pod phase) is chosen by the environment.   *)
(* A Python exception is modelled by its class name; a try block's except   *)
(* clause is the set of class names it catches, and an exception outside    *)
(* that set propagates (pc = "raised").                                     *)
(***************************************************************************)
EXTENDS Integers, Sequences, FiniteSets, TLC

VARIABLES
    pc,                     \* position in verify_consul_pods
    attempt,                \* health-check loop counter (line 1147)
    all_healthy,            \* line 1148 / 1150
    current_statuses,       \* line 1150
    initial_statuses,       \* line 913 / 1152
    remediation_performed,  \* line 914 / 1175
    result,                 \* answer of the last pod listing (line 921), until the next command
    pvc_idx,                \* position of the for loop over pvc_names (line 1005)
    poll_attempt,           \* "attempt" of the wait-for-Running loop (line 1048)
    retry_attempt,          \* line 1090
    linger_left,            \* lingering pods still to force-delete (line 982)
    pvc_errors,             \* line 1004
    printed,                \* lines printed by the running remediate_consul
    events,                 \* commands and waits of the running remediate_consul, in order
    last_rm,                \* the last "rm -f raft.db": file before, exec outcome, file after
    status_log,             \* pod_statuses of every check_consul_health call so far
    comparison_printed,     \* the pre/post comparison table was printed (line 1157)
    steps,                  \* steps of main() started so far
    consul_pods,            \* Running consul pods found by backup_consul_raft (line 614)
    returned,               \* value returned by run_command
    last_poll,              \* the last poll of the current helper pod: its number, Running seen
    lingering,              \* consul pods listed after the scale-down wait, deletes issued and failed
    outcome,                \* how backup, stop, delete_jobs and start went
    iteration,              \* monitor_pods: polls started
    tally,                  \* monitor_pods: the counters of the current iteration
    fetched,                \* monitor_pods: how the last listing went, Pending pods in the namespace
    health_log,             \* all_healthy of every check_consul_health call so far
    remediate_calls,        \* calls of remediate_consul so far
    scale_cmds,             \* "kubectl scale sts/sas-consul-server" commands issued
    helper_creates          \* "kubectl apply" commands issued for helper pods

vars == <<pc, attempt, all_healthy, current_statuses, initial_statuses,
          remediation_performed, result, pvc_idx, poll_attempt, retry_attempt,
          linger_left, pvc_errors, printed, events, last_rm, status_log,
          comparison_printed, steps, consul_pods, returned, last_poll,
          lingering, outcome, iteration, tally, fetched, health_log,
          remediate_calls, scale_cmds, helper_creates>>

\* ------------------------------------------------------------------ bounds

\* check_consul_health on its own: pods in one listing, containers in one pod
MaxPods == 2
MaxContainers == 2
\* verify_consul_pods: pods in one listing of a health check
MaxListed == 1
\* consul pods still listed after the scale-down wait
MaxLingering == 2
\* backup_consul_raft: Running consul pods found
MaxConsulPods == 2
\* run_command: tokens in stdout and in stderr, largest exit status
MaxOutput == 2
MaxCode == 2
\* monitor_pods: pods in the namespace, iterations of the monitoring loop
MaxMonitorPods == 2
MaxIterations == 3

\* ------------------------------------------------------- program constants

max_retries == 1
max_attempts == 30
job_max_attempts == 30
raft_max_retries == 3
\* --replicas=3, countdown(10, ...), countdown(120, ...)
replicas == 3
terminate_seconds == 10
settle_seconds == 120
pvc_names == <<"sas-viya-consul-data-volume-sas-consul-server-0",
               "sas-viya-consul-data-volume-sas-consul-server-1",
               "sas-viya-consul-data-volume-sas-consul-server-2">>

\* ------------------------------------------------------ kubectl's answers

Phases == {"Running", "Pending", "Failed", "absent"}
ContainerStates == {"running", "waiting_CrashLoopBackOff", "waiting_other",
                    "terminated_0", "terminated_nonzero"}
Containers == [ready : BOOLEAN, state : ContainerStates]

SeqsUpTo(S, n) == UNION {[1..k -> S] : k \in 0..n}

PodShapes(n) == [phase : Phases, containerStatuses : SeqsUpTo(Containers, n)]

\* a listing: the i-th item is named sas-consul-server-(i-1)
Listing(shapes) ==
    [i \in 1..Len(shapes) |->
        [name |-> i - 1, phase |-> shapes[i].phase,
         containerStatuses |-> shapes[i].containerStatuses]]

NoResult == [kind |-> "none", items |-> <<>>]
Failures == {[kind |-> "nonzero", items |-> <<>>], [kind |-> "badjson", items |-> <<>>]}
Listed(shapeSeqs) == {[kind |-> "ok", items |-> Listing(s)] : s \in shapeSeqs}

\* listings of up to p single-container pods, and of one pod of up to c containers
HealthInputs(p, c) ==
    Failures
    \cup Listed(SeqsUpTo(PodShapes(1), p))
    \cup Listed(SeqsUpTo(PodShapes(c), 1))

OrchPodShapes ==
    {[phase |-> "Running", containerStatuses |-> <<[ready |-> TRUE, state |-> "running"]>>],
     [phase |-> "Running",
      containerStatuses |-> <<[ready |-> FALSE, state |-> "waiting_CrashLoopBackOff"]>>]}

\* the listings verify_consul_pods is run on: up to MaxListed pods, all of
\* them healthy or all but the last one
HealthyShape == [phase |-> "Running", containerStatuses |-> <<[ready |-> TRUE, state |-> "running"]>>]
OrchListings ==
    {s \in SeqsUpTo(OrchPodShapes, MaxListed) :
        \A i \in 1..(Len(s) - 1) : s[i] = HealthyShape}

OrchResponses == Failures \cup Listed(OrchListings)

\* ------------------------------------------------- check_consul_health

\* subprocess.run(check=True) and json.loads: the exception the listing raises
ListingException(res) ==
    IF res.kind = "nonzero" THEN "CalledProcessError"
    ELSE IF res.kind = "badjson" THEN "JSONDecodeError"
    ELSE "none"

\* variant: the except clause names CalledProcessError alone
health_caught_narrow == {"CalledProcessError"}

\* except (subprocess.CalledProcessError, json.JSONDecodeError)
health_caught == {"CalledProcessError", "JSONDecodeError"}

\* pod["status"].get("phase", "Unknown")
pod_phase(pod) == IF pod.phase = "absent" THEN "Unknown" ELSE pod.phase

RECURSIVE CountReady(_, _)
CountReady(cs, i) ==
    IF i > Len(cs) THEN 0
    ELSE (IF cs[i].ready THEN 1 ELSE 0) + CountReady(cs, i + 1)

\* f"{ready_containers}/{total_containers}": two decimal numerals around "/"
ready_status(r, t) == <<r, "/", t>>

\* variant: no break, the last matching container decides
RECURSIVE ScanStatus_no_break(_, _, _)
ScanStatus_no_break(cs, i, phase) ==
    IF i > Len(cs) THEN phase
    ELSE ScanStatus_no_break(cs, i + 1,
            IF cs[i].state = "waiting_CrashLoopBackOff" THEN "CrashLoopBackOff"
            ELSE IF cs[i].state = "terminated_nonzero" THEN "Error"
            ELSE phase)

\* "for cs in container_statuses": the first container waiting with reason
\* CrashLoopBackOff or terminated with a non-zero exit code sets the status
\* and breaks
RECURSIVE ScanStatus(_, _, _)
ScanStatus(cs, i, phase) ==
    IF i > Len(cs) THEN phase
    ELSE IF cs[i].state = "waiting_CrashLoopBackOff" THEN "CrashLoopBackOff"
    ELSE IF cs[i].state = "terminated_nonzero" THEN "Error"
    ELSE ScanStatus(cs, i + 1, phase)

pod_status(pod) ==
    <<pod.name,
      ready_status(CountReady(pod.containerStatuses, 1), Len(pod.containerStatuses)),
      ScanStatus(pod.containerStatuses, 1, pod_phase(pod))>>

\* variant: the test looks at the ready count alone
pod_unhealthy_ready_only(pod) ==
    LET total == Len(pod.containerStatuses)
        st == pod_status(pod)
    IN  st[2] # ready_status(total, total)

\* if ready_status != f"{total_containers}/{total_containers}" or status not in ["Running"]
pod_unhealthy(pod) ==
    LET total == Len(pod.containerStatuses)
        st == pod_status(pod)
    IN  st[2] # ready_status(total, total) \/ st[3] \notin {"Running"}

RECURSIVE HealthLoop(_, _, _, _)
HealthLoop(pods, i, healthy, statuses) ==
    IF i > Len(pods) THEN [all_healthy |-> healthy, pod_statuses |-> statuses]
    ELSE HealthLoop(pods, i + 1,
                    IF pod_unhealthy(pods[i]) THEN FALSE ELSE healthy,
                    Append(statuses, pod_status(pods[i])))

\* variant: no "if not consul_pods" guard, the loop runs over an empty list
check_consul_health_vacuous(res) ==
    LET exc == ListingException(res) IN
    IF exc # "none"
    THEN [raised |-> exc \notin health_caught, all_healthy |-> FALSE, pod_statuses |-> <<>>]
    ELSE LET out == HealthLoop(res.items, 1, TRUE, <<>>)
         IN  [raised |-> FALSE, all_healthy |-> out.all_healthy,
              pod_statuses |-> out.pod_statuses]

check_consul_health(res) ==
    LET exc == ListingException(res) IN
    IF exc # "none"
    THEN [raised |-> exc \notin health_caught, all_healthy |-> FALSE, pod_statuses |-> <<>>]
    ELSE IF res.items = <<>>
    THEN [raised |-> FALSE, all_healthy |-> FALSE, pod_statuses |-> <<>>]
    ELSE LET out == HealthLoop(res.items, 1, TRUE, <<>>)
         IN  [raised |-> FALSE, all_healthy |-> out.all_healthy,
              pod_statuses |-> out.pod_statuses]

\* ------------------------------------------------------ verify_consul_pods

\* subprocess.run(cmd, check=True) of a command whose output is not parsed
RunException(ok) == IF ok THEN "none" ELSE "CalledProcessError"

\* the except clauses of remediate_consul's try blocks
scale_down_caught == {"CalledProcessError"}
lingering_caught == {"CalledProcessError", "JSONDecodeError"}
force_delete_caught == {"CalledProcessError"}
create_caught == {"CalledProcessError"}
poll_caught == {"CalledProcessError", "JSONDecodeError"}
timeout_delete_caught == {"CalledProcessError"}
list_caught == {"CalledProcessError"}
delete_raft_caught == {"CalledProcessError"}
delete_helper_caught == {"CalledProcessError"}
scale_up_caught == {"CalledProcessError"}

PollResults == {"Running", "Pending", "nonzero", "badjson"}
PollException(r) ==
    IF r = "nonzero" THEN "CalledProcessError"
    ELSE IF r = "badjson" THEN "JSONDecodeError"
    ELSE "none"

\* A loop counter that is not read again before its next assignment is
\* dropped at the loop's exit: it is set to 0 there.

\* pvc_errors.append(f"...") : the kind of the failure and what it is about
\* (a claim of pvc_names, or the stateful set)
StatefulSet == "sas-consul-server"
\* variant: a failed helper-pod deletion is logged but not appended
record_error_partial(errors, kind, about) ==
    IF kind = "delete_pod" THEN errors ELSE Append(errors, <<kind, about>>)

record_error(errors, kind, about) == Append(errors, <<kind, about>>)

\* variant: the loop admits one more pass
loop_condition_late(a) == a <= max_retries + 1

\* while attempt <= max_retries
loop_condition(a) == a <= max_retries

\* variant: remediation does not depend on the health check
remediation_always(healthy) == TRUE

\* if all_healthy: ... break / else: ... remediate_consul(initial_statuses)
remediation_needed(healthy) == ~healthy

\* variant: initial_statuses follows every health check
store_initial_always(a, initial, current) == current

\* if attempt == 0: initial_statuses = current_statuses
store_initial(a, initial, current) == IF a = 0 THEN current ELSE initial

\* variant: the table is printed whenever the pods are healthy
print_comparison_always(performed, initial, current) == TRUE

\* if remediation_performed and initial_statuses and current_statuses
print_comparison(performed, initial, current) ==
    performed /\ initial # <<>> /\ current # <<>>

orch == <<attempt, all_healthy, current_statuses, initial_statuses, remediation_performed>>
locals == <<pvc_idx, poll_attempt, retry_attempt, linger_left, pvc_errors, printed>>
counts == <<health_log, remediate_calls, scale_cmds, helper_creates>>
trace == <<events, last_rm>>
report == <<status_log, comparison_printed>>
probes == <<last_poll, lingering>>
outer == <<steps, consul_pods, returned, outcome>>
monitoring == <<iteration, tally, fetched>>

\* total_pods = running = pending = crashloop = error = completed = 0
NoTally == [total_pods |-> 0, running |-> 0, pending |-> 0, crashloop |-> 0,
            error |-> 0, completed |-> 0]
NotFetched == [kind |-> "none", pending |-> 0]

InMonitor == pc \in {"monitor", "monitor_polled", "monitor_done", "monitor_stopped"}

\* how each step before verify_consul_pods went
NotRun == [backup |-> "pending", stop |-> "pending", delete_jobs |-> "pending",
           start |-> "pending"]
AllRun == [backup |-> "complete", stop |-> "Succeeded", delete_jobs |-> "complete",
           start |-> "Succeeded"]

NoRm == [ran |-> FALSE, before |-> FALSE, exec_ok |-> FALSE, after |-> FALSE]
NoPoll == [n |-> 0, running |-> FALSE]
NoLingering == [found |-> 0, issued |-> 0, failed |-> 0]
NoReturn == [stdout |-> <<>>, stderr |-> <<>>, returncode |-> 0, set |-> FALSE]

\* the state before main() reaches any of the modelled steps
Fresh ==
    /\ attempt = 0
    /\ all_healthy = FALSE
    /\ current_statuses = <<>>
    /\ initial_statuses = <<>>
    /\ remediation_performed = FALSE
    /\ pvc_idx = 0
    /\ poll_attempt = 0
    /\ retry_attempt = 0
    /\ linger_left = 0
    /\ pvc_errors = <<>>
    /\ printed = {}
    /\ events = <<>>
    /\ last_rm = NoRm
    /\ status_log = <<>>
    /\ comparison_printed = FALSE
    /\ consul_pods = 0
    /\ returned = NoReturn
    /\ last_poll = NoPoll
    /\ lingering = NoLingering
    /\ iteration = 0
    /\ tally = NoTally
    /\ fetched = NotFetched
    /\ health_log = <<>>
    /\ remediate_calls = 0
    /\ scale_cmds = 0
    /\ helper_creates = 0

\* main() has called backup_consul_raft, stop_sas_environment, delete_jobs and
\* start_viya_environment, and now calls verify_consul_pods
Init ==
    /\ pc = "check"
    /\ result = NoResult
    /\ steps = <<"backup", "stop", "delete_jobs", "start", "verify">>
    /\ outcome = AllRun
    /\ Fresh

Raise ==
    /\ pc' = "raised"
    /\ UNCHANGED <<orch, result, locals, counts, trace, report, probes, outer, monitoring>>

\* all_healthy, current_statuses = check_consul_health()
HealthCheck ==
    /\ pc = "check"
    /\ \E res \in OrchResponses :
         LET out == check_consul_health(res) IN
         IF out.raised THEN Raise
         ELSE /\ result' = res
              /\ all_healthy' = out.all_healthy
              /\ current_statuses' = out.pod_statuses
              /\ health_log' = Append(health_log, out.all_healthy)
              /\ status_log' = Append(status_log, out.pod_statuses)
              /\ pc' = "checked"
              /\ UNCHANGED <<attempt, initial_statuses, remediation_performed, locals,
                             remediate_calls, scale_cmds, helper_creates, trace,
                             comparison_printed, probes, outer, monitoring>>

\* the loop body after the health check (lines 1151-1176), up to the call
\* of remediate_consul or the break
LoopBody ==
    /\ pc = "checked"
    /\ initial_statuses' = store_initial(attempt, initial_statuses, current_statuses)
    /\ IF remediation_needed(all_healthy)
       THEN /\ remediation_performed' = TRUE
            /\ remediate_calls' = remediate_calls + 1
            /\ pc' = "scale_down"
            /\ UNCHANGED comparison_printed
       ELSE /\ comparison_printed' =
                  print_comparison(remediation_performed,
                                   store_initial(attempt, initial_statuses, current_statuses),
                                   current_statuses)
            /\ pc' = "exit_loop"
            /\ UNCHANGED <<remediation_performed, remediate_calls>>
    /\ UNCHANGED <<attempt, all_healthy, current_statuses, result, locals,
                   health_log, scale_cmds, helper_creates, trace, status_log, probes,
                   outer, monitoring>>

\* kubectl scale sts/sas-consul-server --replicas=0, then countdown(10)
ScaleDown ==
    /\ pc = "scale_down"
    /\ \E ok \in BOOLEAN :
         IF RunException(ok) \notin scale_down_caught \cup {"none"} THEN Raise
         ELSE /\ scale_cmds' = scale_cmds + 1
              /\ printed' = IF ok THEN printed \cup {<<"scaled_down", 0>>} ELSE printed
              /\ events' = events \o <<<<"scale", 0>>, <<"wait", terminate_seconds>>>>
              /\ pc' = "lingering"
              /\ result' = NoResult
              /\ UNCHANGED <<orch, pvc_idx, poll_attempt, retry_attempt,
                             linger_left, pvc_errors, health_log, remediate_calls,
                             helper_creates, last_rm, report, probes, outer, monitoring>>

\* the listing of lingering consul pods; pvc_errors = [] and the for loop's
\* first iteration follow when nothing is to be force-deleted
EnterClaims(n) ==
    /\ linger_left' = n
    /\ lingering' = [found |-> n, issued |-> 0, failed |-> 0]
    /\ pc' = IF n = 0 THEN "init_claims" ELSE "force_delete"

LingeringResponses ==
    {[kind |-> "nonzero", n |-> 0], [kind |-> "badjson", n |-> 0]}
    \cup {[kind |-> "ok", n |-> k] : k \in 0..MaxLingering}

CheckLingering ==
    /\ pc = "lingering"
    /\ \E r \in LingeringResponses :
         LET exc == PollException(r.kind) IN
         IF exc \notin lingering_caught \cup {"none"} THEN Raise
         ELSE /\ EnterClaims(IF exc = "none" THEN r.n ELSE 0)
              /\ UNCHANGED <<orch, result, pvc_idx, poll_attempt, retry_attempt,
                             pvc_errors, printed, counts, trace, report, last_poll,
                             outer, monitoring>>

\* variant: the first failed force-delete ends the loop over lingering_pods
ForceDeleteLingering_stop ==
    /\ pc = "force_delete"
    /\ \E ok \in BOOLEAN :
         /\ linger_left' = IF ok THEN linger_left - 1 ELSE 0
         /\ lingering' = [lingering EXCEPT !.issued = @ + 1,
                                           !.failed = IF ok THEN @ ELSE @ + 1]
         /\ pc' = IF linger_left = 1 \/ ~ok THEN "init_claims" ELSE "force_delete"
         /\ printed' = IF ok THEN printed
                       ELSE printed \cup {<<"force_delete_failed", 0>>}
         /\ UNCHANGED <<orch, result, pvc_idx, poll_attempt, retry_attempt, pvc_errors,
                        counts, trace, report, last_poll, outer, monitoring>>

\* one iteration of "for pod_name in lingering_pods":
\* kubectl delete pod <lingering pod> --force --grace-period=0
ForceDeleteLingering ==
    /\ pc = "force_delete"
    /\ \E ok \in BOOLEAN :
         IF RunException(ok) \notin force_delete_caught \cup {"none"} THEN Raise
         ELSE /\ linger_left' = linger_left - 1
              /\ lingering' = [lingering EXCEPT !.issued = @ + 1,
                                                !.failed = IF ok THEN @ ELSE @ + 1]
              /\ pc' = IF linger_left = 1 THEN "init_claims" ELSE "force_delete"
              /\ printed' = IF ok THEN printed
                            ELSE printed \cup {<<"force_delete_failed", 0>>}
              /\ UNCHANGED <<orch, result, pvc_idx, poll_attempt, retry_attempt,
                             pvc_errors, counts, trace, report, last_poll, outer, monitoring>>

\* pvc_names = [...], pvc_errors = [], the for loop's first iteration
InitClaims ==
    /\ pc = "init_claims"
    /\ pvc_errors' = <<>>
    /\ pvc_idx' = 1
    /\ lingering' = NoLingering
    /\ pc' = "create_helper"
    /\ UNCHANGED <<orch, result, poll_attempt, retry_attempt, linger_left, printed,
                   counts, trace, report, last_poll, outer, monitoring>>

\* variant: the wait gives up one poll early
timed_out_early(a) == a >= max_attempts - 1

\* variant: the loop over pvc_names ends one claim early
NextClaim_short(ev) ==
    /\ pvc_idx' = pvc_idx + 1
    /\ events' = Append(ev, <<"end", pvc_idx>>)
    /\ pc' = IF pvc_idx < Len(pvc_names) - 1 THEN "create_helper" ELSE "scale_up"

\* variant: the loop stops at the first claim that ends with errors recorded
NextClaim_abort(ev) ==
    /\ pvc_idx' = pvc_idx + 1
    /\ events' = Append(ev, <<"end", pvc_idx>>)
    /\ pc' = IF pvc_idx < Len(pvc_names) /\ pvc_errors = <<>>
             THEN "create_helper" ELSE "scale_up"

\* variant: the loop steps over every other claim
NextClaim_skip(ev) ==
    /\ pvc_idx' = pvc_idx + 2
    /\ events' = Append(ev, <<"end", pvc_idx>>)
    /\ pc' = IF pvc_idx + 1 < Len(pvc_names) THEN "create_helper" ELSE "scale_up"

\* the end of one iteration of "for pvc_name in pvc_names" (also "continue")
\* ev: the events up to the end of the iteration
NextClaim(ev) ==
    /\ pvc_idx' = pvc_idx + 1
    /\ events' = Append(ev, <<"end", pvc_idx>>)
    /\ pc' = IF pvc_idx < Len(pvc_names) THEN "create_helper" ELSE "scale_up"

\* kubectl apply -f <manifest of the helper pod mounting the claim>
CreateHelper ==
    /\ pc = "create_helper"
    /\ \E ok \in BOOLEAN :
         IF RunException(ok) \notin create_caught \cup {"none"} THEN Raise
         ELSE /\ helper_creates' = helper_creates + 1
              /\ IF ok
                 THEN /\ printed' = printed \cup {<<"processing", pvc_idx>>, <<"created", pvc_idx>>}
                      /\ poll_attempt' = 0
                      /\ events' = Append(events, <<"create", pvc_idx>>)
                      /\ pc' = "poll"
                      /\ UNCHANGED <<pvc_idx, pvc_errors>>
                 ELSE /\ printed' = printed \cup {<<"processing", pvc_idx>>}
                      /\ pvc_errors' = record_error(pvc_errors, "create", pvc_names[pvc_idx])
                      /\ NextClaim(Append(events, <<"create", pvc_idx>>))
                      /\ UNCHANGED poll_attempt
              /\ UNCHANGED <<orch, result, retry_attempt, linger_left, health_log,
                             remediate_calls, scale_cmds, last_rm, report, probes, outer, monitoring>>

\* "if attempt >= max_attempts" after the wait loop
timed_out(a) == a >= max_attempts

\* one iteration of "while attempt < max_attempts" and, when the loop ends,
\* the test that follows it
PollHelper ==
    /\ pc = "poll"
    /\ poll_attempt < max_attempts
    /\ \E r \in PollResults :
         IF PollException(r) \notin poll_caught \cup {"none"} THEN Raise
         ELSE /\ last_poll' = [n |-> poll_attempt + 1, running |-> (r = "Running")]
              /\ IF r = "Running"
                 THEN /\ IF timed_out(poll_attempt)
                         THEN /\ pvc_errors' = record_error(pvc_errors, "timeout", pvc_names[pvc_idx])
                              /\ pc' = "timeout_delete"
                              /\ UNCHANGED <<printed, poll_attempt>>
                         ELSE /\ printed' = printed \cup {<<"running", pvc_idx>>}
                              /\ pc' = "list_before"
                              /\ poll_attempt' = 0
                              /\ UNCHANGED pvc_errors
                 ELSE /\ poll_attempt' = poll_attempt + 1
                      /\ UNCHANGED printed
                      /\ IF poll_attempt + 1 < max_attempts
                         THEN pc' = "poll" /\ UNCHANGED pvc_errors
                         ELSE IF timed_out(poll_attempt + 1)
                         THEN /\ pvc_errors' = record_error(pvc_errors, "timeout", pvc_names[pvc_idx])
                              /\ pc' = "timeout_delete"
                         ELSE pc' = "list_before" /\ UNCHANGED pvc_errors
              /\ UNCHANGED <<orch, result, pvc_idx, retry_attempt, linger_left, counts,
                             trace, report, lingering, outer, monitoring>>

\* variant: the timeout path leaves the helper pod behind
TimeoutDelete_skipped ==
    /\ pc = "timeout_delete"
    /\ NextClaim(events)
    /\ poll_attempt' = 0
    /\ last_poll' = NoPoll
    /\ UNCHANGED <<orch, result, retry_attempt, linger_left, pvc_errors, printed,
                   counts, last_rm, report, lingering, outer, monitoring>>

\* the force-delete of a helper pod that never reached Running, then "continue"
TimeoutDelete ==
    /\ pc = "timeout_delete"
    /\ \E ok \in BOOLEAN :
         IF RunException(ok) \notin timeout_delete_caught \cup {"none"} THEN Raise
         ELSE /\ printed' = IF ok THEN printed \cup {<<"pod_deleted", pvc_idx>>} ELSE printed
              /\ NextClaim(Append(events, <<"delete_helper", pvc_idx>>))
              /\ poll_attempt' = 0
              /\ last_poll' = NoPoll
              /\ UNCHANGED <<orch, result, retry_attempt, linger_left,
                             pvc_errors, counts, last_rm, report, lingering, outer, monitoring>>

\* kubectl exec ... ls -l /consul/data/raft/raft.db
ListBefore ==
    /\ pc = "list_before"
    /\ \E ok \in BOOLEAN :
         IF RunException(ok) \notin list_caught \cup {"none"} THEN Raise
         ELSE /\ retry_attempt' = 0
              /\ last_poll' = NoPoll
              /\ pc' = "delete_raft"
              /\ UNCHANGED <<orch, result, pvc_idx, poll_attempt, linger_left,
                             pvc_errors, printed, counts, trace, report, lingering,
                             outer, monitoring>>

\* variant: a failed removal is retried without a limit
DeleteRaft_unbounded ==
    /\ pc = "delete_raft"
    /\ \E exec_ok \in BOOLEAN :
         /\ last_rm' = [ran |-> TRUE, before |-> TRUE, exec_ok |-> exec_ok,
                        after |-> ~exec_ok]
         /\ printed' = IF exec_ok THEN printed \cup {<<"raft_deleted", pvc_idx>>}
                       ELSE printed
         /\ retry_attempt' = IF exec_ok THEN 0 ELSE retry_attempt + 1
         /\ pc' = IF exec_ok THEN "list_after" ELSE "delete_raft"
         /\ UNCHANGED <<orch, result, pvc_idx, poll_attempt, linger_left,
                        pvc_errors, counts, events, report, probes, outer, monitoring>>

\* variant: rm without -f fails on a file that does not exist
rm_plain_ok(present) == present

\* rm -f /consul/data/raft/raft.db in a reachable helper pod: exit status 0
\* whether or not the file exists
rm_force_ok(present) == TRUE

\* one iteration of "while retry_attempt < max_retries" around rm -f raft.db;
\* the file may or may not be on the claim when the command runs
DeleteRaft ==
    /\ pc = "delete_raft"
    /\ retry_attempt < raft_max_retries
    /\ \E present \in BOOLEAN, exec_ok \in BOOLEAN :
         LET ok == exec_ok /\ rm_force_ok(present) IN
         IF RunException(ok) \notin delete_raft_caught \cup {"none"} THEN Raise
         ELSE /\ last_rm' = [ran |-> TRUE, before |-> present, exec_ok |-> exec_ok,
                             after |-> IF ok THEN FALSE ELSE present]
              /\ IF ok
                 THEN /\ printed' = printed \cup {<<"raft_deleted", pvc_idx>>}
                      /\ pc' = "list_after"
                      /\ retry_attempt' = 0
                      /\ UNCHANGED pvc_errors
                 ELSE /\ UNCHANGED printed
                      /\ IF retry_attempt + 1 < raft_max_retries
                         THEN /\ retry_attempt' = retry_attempt + 1
                              /\ pc' = "delete_raft"
                              /\ UNCHANGED pvc_errors
                         ELSE /\ retry_attempt' = 0
                              /\ pvc_errors' = record_error(pvc_errors, "raft", pvc_names[pvc_idx])
                              /\ pc' = "list_after"
              /\ UNCHANGED <<orch, result, pvc_idx, poll_attempt, linger_left, counts,
                             events, report, probes, outer, monitoring>>

\* kubectl exec ... ls -l /consul/data/raft/
ListAfter ==
    /\ pc = "list_after"
    /\ \E ok \in BOOLEAN :
         IF RunException(ok) \notin list_caught \cup {"none"} THEN Raise
         ELSE /\ pc' = "delete_helper"
              /\ last_rm' = NoRm
              /\ UNCHANGED <<orch, result, locals, counts, events, report, probes, outer, monitoring>>

\* the force-delete of the helper pod that closes a claim's iteration
DeleteHelper ==
    /\ pc = "delete_helper"
    /\ \E ok \in BOOLEAN :
         IF RunException(ok) \notin delete_helper_caught \cup {"none"} THEN Raise
         ELSE /\ IF ok
                 THEN /\ printed' = printed \cup {<<"pod_deleted", pvc_idx>>}
                      /\ UNCHANGED pvc_errors
                 ELSE /\ pvc_errors' = record_error(pvc_errors, "delete_pod", pvc_names[pvc_idx])
                      /\ UNCHANGED printed
              /\ NextClaim(Append(events, <<"delete_helper", pvc_idx>>))
              /\ UNCHANGED <<orch, result, poll_attempt, retry_attempt, linger_left, counts,
                             last_rm, report, probes, outer, monitoring>>

\* variant: the settle wait is skipped when the scale-up failed
scale_up_events_no_wait(ok) ==
    IF ok THEN <<<<"scale", replicas>>, <<"wait", settle_seconds>>>>
    ELSE <<<<"scale", replicas>>>>

\* the scale-up command, then countdown(120) outside the try block
scale_up_events(ok) == <<<<"scale", replicas>>, <<"wait", settle_seconds>>>>

\* kubectl scale sts/sas-consul-server --replicas=3, countdown(120), the
\* error summary
ScaleUp ==
    /\ pc = "scale_up"
    /\ \E ok \in BOOLEAN :
         IF RunException(ok) \notin scale_up_caught \cup {"none"} THEN Raise
         ELSE /\ scale_cmds' = scale_cmds + 1
              /\ IF ok
                 THEN /\ printed' = printed \cup {<<"scaled_up", 0>>}
                      /\ UNCHANGED pvc_errors
                 ELSE /\ pvc_errors' = record_error(pvc_errors, "scale_up", StatefulSet)
                      /\ UNCHANGED printed
              /\ events' = events \o scale_up_events(ok)
              /\ pc' = "rem_return"
              /\ UNCHANGED <<orch, result, pvc_idx, poll_attempt, retry_attempt,
                             linger_left, health_log, remediate_calls, helper_creates,
                             last_rm, report, probes, outer, monitoring>>

\* remediate_consul returns; attempt += 1 and the loop test
ReturnRemediate ==
    /\ pc = "rem_return"
    /\ attempt' = attempt + 1
    /\ pc' = IF loop_condition(attempt + 1) THEN "check" ELSE "exit_loop"
    /\ pvc_idx' = 0
    /\ poll_attempt' = 0
    /\ retry_attempt' = 0
    /\ linger_left' = 0
    /\ pvc_errors' = <<>>
    /\ printed' = {}
    /\ events' = <<>>
    /\ last_rm' = NoRm
    /\ UNCHANGED <<all_healthy, current_statuses, initial_statuses,
                   remediation_performed, result, counts, report, probes, outer, monitoring>>

\* variant: an unhealthy consul after the retries ends the process
Finish_fatal ==
    /\ pc = "exit_loop"
    /\ pc' = IF all_healthy THEN "done_healthy" ELSE "exited"
    /\ UNCHANGED <<orch, result, locals, counts, trace, report, probes, outer, monitoring>>

\* after the loop: the warning when not all_healthy, the timing lines, return
Finish ==
    /\ pc = "exit_loop"
    /\ pc' = IF all_healthy THEN "done_healthy" ELSE "done_unhealthy"
    /\ UNCHANGED <<orch, result, locals, counts, trace, report, probes, outer, monitoring>>

\* variant: the stop step is called before the backup step
main_next_stop_first(step) ==
    CASE step = "stop" -> "backup"
      [] step = "backup" -> "delete_jobs"
      [] step = "delete_jobs" -> "start"
      [] step = "start" -> "verify"
      [] step = "verify" -> "monitor"

\* main(): the function called after each step returns
main_next(step) ==
    CASE step = "backup" -> "stop"
      [] step = "stop" -> "delete_jobs"
      [] step = "delete_jobs" -> "start"
      [] step = "start" -> "verify"
      [] step = "verify" -> "monitor"

\* where each step begins
Entry(step) ==
    CASE step = "backup" -> "backup_list"
      [] step = "stop" -> "stop_create"
      [] step = "delete_jobs" -> "delete_jobs"
      [] step = "start" -> "start_create"
      [] step = "verify" -> "check"
      [] step = "monitor" -> "monitor"

\* the running step returns and main() calls the next one
Return(step) ==
    /\ pc' = Entry(main_next(step))
    /\ steps' = Append(steps, main_next(step))

\* sys.exit(1) in the given step, for the given reason
Exit(step, why) ==
    /\ pc' = "exited"
    /\ outcome' = [outcome EXCEPT ![step] = why]
    /\ UNCHANGED <<steps, consul_pods, poll_attempt>>

\* what the steps of main() before verify_consul_pods leave alone
untouched == <<orch, result, pvc_idx, retry_attempt, linger_left, pvc_errors, printed,
               counts, trace, report, probes, returned, monitoring>>

\* main(): verify_consul_pods has returned, monitor_pods is called
MainMonitor ==
    /\ pc \in {"done_healthy", "done_unhealthy"}
    /\ Return("verify")
    /\ UNCHANGED <<orch, result, locals, counts, trace, report, probes, consul_pods, returned,
                   outcome, monitoring>>

\* ------------------------------------------------------------ monitor_pods

\* one pod for each way through the counting: Pending, Succeeded, Running and
\* ready, Running and not ready, in CrashLoopBackOff, terminated with an error
MonitorShapes ==
    {[phase |-> "Pending", containerStatuses |-> <<>>],
     [phase |-> "Succeeded", containerStatuses |-> <<[ready |-> FALSE, state |-> "terminated_0"]>>],
     [phase |-> "Running", containerStatuses |-> <<[ready |-> TRUE, state |-> "running"]>>],
     [phase |-> "Running", containerStatuses |-> <<[ready |-> FALSE, state |-> "running"]>>],
     [phase |-> "Running",
      containerStatuses |-> <<[ready |-> FALSE, state |-> "waiting_CrashLoopBackOff"]>>],
     [phase |-> "Failed",
      containerStatuses |-> <<[ready |-> FALSE, state |-> "terminated_nonzero"]>>]}

\* the pods of the namespace at the time of a poll, and what kubectl does
MonitorListings(n) == SeqsUpTo(MonitorShapes, n)
MonitorKinds == {"ok", "nonzero", "badjson", "timeout"}
MonitorException(kind) ==
    IF kind = "nonzero" THEN "CalledProcessError"
    ELSE IF kind = "badjson" THEN "JSONDecodeError"
    ELSE IF kind = "timeout" THEN "TimeoutExpired"
    ELSE "none"
monitor_caught == {"CalledProcessError", "JSONDecodeError", "TimeoutExpired"}

\* the counter one pod of the listing adds to
Category(pod) ==
    LET cs == pod.containerStatuses
        scanned == ScanStatus(cs, 1, "none")
    IN IF pod.phase = "Pending" THEN "pending"
       ELSE IF pod.phase = "Succeeded" THEN "completed"
       ELSE IF scanned = "CrashLoopBackOff" THEN "crashloop"
       ELSE IF scanned = "Error" THEN "error"
       ELSE IF pod.phase = "Running" /\ CountReady(cs, 1) = Len(cs) THEN "running"
       ELSE "error"

\* "for pod in pods": the counters after the pods from i on
RECURSIVE TallyLoop(_, _, _)
TallyLoop(pods, i, t) ==
    IF i > Len(pods) THEN t
    ELSE TallyLoop(pods, i + 1, [t EXCEPT ![Category(pods[i])] = @ + 1])

\* "if pending == 0: break"; the counters are all the test looks at
monitor_break(pending, kind) == pending = 0

\* the top of one iteration of "while True": the counters are zeroed, the pods
\* are listed and counted; a failed, unparsable or timed-out listing zeroes
\* the counters again
MonitorPoll ==
    /\ pc = "monitor"
    /\ iteration < MaxIterations
    /\ \E kind \in MonitorKinds, pods \in MonitorListings(MaxMonitorPods) :
         IF MonitorException(kind) \notin monitor_caught \cup {"none"} THEN Raise
         ELSE /\ iteration' = iteration + 1
              /\ tally' = IF kind = "ok"
                          THEN TallyLoop(pods, 1, [NoTally EXCEPT !.total_pods = Len(pods)])
                          ELSE NoTally
              /\ fetched' = [kind |-> kind,
                             pending |-> Cardinality({i \in 1..Len(pods) :
                                                        pods[i].phase = "Pending"})]
              /\ pc' = "monitor_polled"
              /\ UNCHANGED <<orch, result, locals, counts, trace, report, probes, outer>>

\* the rest of the iteration: the table is printed, then the loop ends when
\* pending is 0 or sleeps 5 seconds and starts over
MonitorShow ==
    /\ pc = "monitor_polled"
    /\ IF monitor_break(tally.pending, fetched.kind)
       THEN /\ pc' = "monitor_done"
            /\ UNCHANGED tally
       ELSE /\ pc' = "monitor"
            /\ tally' = NoTally
    /\ UNCHANGED <<orch, result, locals, counts, trace, report, probes, outer, iteration,
                   fetched>>

\* except KeyboardInterrupt: the operator stops the monitoring
MonitorInterrupt ==
    /\ pc \in {"monitor", "monitor_polled"}
    /\ pc' = "monitor_stopped"
    /\ UNCHANGED <<orch, result, locals, counts, trace, report, probes, outer, monitoring>>

Next ==
    \/ HealthCheck
    \/ LoopBody
    \/ ScaleDown
    \/ CheckLingering
    \/ ForceDeleteLingering
    \/ InitClaims
    \/ CreateHelper
    \/ PollHelper
    \/ TimeoutDelete
    \/ ListBefore
    \/ DeleteRaft
    \/ ListAfter
    \/ DeleteHelper
    \/ ScaleUp
    \/ ReturnRemediate
    \/ Finish
    \/ MainMonitor
    \/ MonitorPoll
    \/ MonitorShow
    \/ MonitorInterrupt

Spec == Init /\ [][Next]_vars

\* the script runs on: every command returns or fails, every sleep ends
FairSpec == Spec /\ WF_vars(Next)

\* ----------------------------------------- main() up to verify_consul_pods

ListingKinds == {"ok", "nonzero", "badjson"}
ListingError(kind) ==
    IF kind = "nonzero" THEN "CalledProcessError"
    ELSE IF kind = "badjson" THEN "JSONDecodeError"
    ELSE "none"

\* the except clauses of the steps' try blocks
backup_list_caught == {"CalledProcessError", "JSONDecodeError"}
job_create_caught == {"CalledProcessError"}
job_find_caught == {"CalledProcessError", "JSONDecodeError"}
job_wait_caught == {"CalledProcessError", "JSONDecodeError"}
pushgateway_caught == {"CalledProcessError"}
stuck_pods_caught == {"CalledProcessError", "JSONDecodeError"}
delete_jobs_caught == {"CalledProcessError", "JSONDecodeError"}

\* backup_consul_raft: list the consul pods, keep the Running ones
BackupList ==
    /\ pc = "backup_list"
    /\ \E kind \in ListingKinds, n \in 0..MaxConsulPods :
         IF ListingError(kind) \notin backup_list_caught \cup {"none"} THEN Raise
         ELSE /\ IF kind # "ok"
                 THEN Exit("backup", "list_failed")
                 ELSE IF n = 0
                 THEN Exit("backup", "no_running_pods")
                 ELSE /\ consul_pods' = n
                      /\ pc' = "backup_pods"
                      /\ UNCHANGED <<steps, poll_attempt, outcome>>
              /\ UNCHANGED untouched

\* variant: failed backups are listed in the summary and the step returns
BackupPods_tolerant ==
    /\ pc = "backup_pods"
    /\ \E failed \in SUBSET (1..consul_pods) :
         /\ outcome' = [outcome EXCEPT !["backup"] =
                           IF failed = {} THEN "complete" ELSE "backup_failed"]
         /\ consul_pods' = 0
         /\ Return("backup")
         /\ UNCHANGED poll_attempt
    /\ UNCHANGED untouched

\* backup_consul_raft: backup_raft_for_pod for every pod of consul_pods in the
\* thread pool (test -f, then cp), then the summary; failed is the set of pods
\* whose backup failed
BackupPods ==
    /\ pc = "backup_pods"
    /\ \E failed \in SUBSET (1..consul_pods) :
         IF failed # {}
         THEN Exit("backup", "backup_failed")
         ELSE /\ outcome' = [outcome EXCEPT !["backup"] = "complete"]
              /\ consul_pods' = 0
              /\ Return("backup")
              /\ UNCHANGED poll_attempt
    /\ UNCHANGED untouched

\* kubectl create job ... --from cronjobs/sas-stop-all (sas-start-all), then
\* countdown(10)
CreateJob(here, there, step) ==
    /\ pc = here
    /\ \E ok \in BOOLEAN :
         IF RunException(ok) \notin job_create_caught \cup {"none"} THEN Raise
         ELSE /\ IF ok
                 THEN pc' = there /\ UNCHANGED <<steps, consul_pods, poll_attempt, outcome>>
                 ELSE Exit(step, "create_failed")
              /\ UNCHANGED untouched

\* one iteration of "while attempt < max_attempts" looking for the job's pod,
\* and "if not pod_name: sys.exit(1)" after the last one
FindJobPod(here, there, step) ==
    /\ pc = here
    /\ poll_attempt < job_max_attempts
    /\ \E kind \in ListingKinds, found \in BOOLEAN :
         IF ListingError(kind) \notin job_find_caught \cup {"none"} THEN Raise
         ELSE /\ IF kind = "ok" /\ found
                 THEN /\ pc' = there
                      /\ poll_attempt' = 0
                      /\ UNCHANGED outcome
                 ELSE IF poll_attempt + 1 < job_max_attempts
                 THEN /\ pc' = here
                      /\ poll_attempt' = poll_attempt + 1
                      /\ UNCHANGED outcome
                 ELSE /\ pc' = "exited"
                      /\ poll_attempt' = 0
                      /\ outcome' = [outcome EXCEPT ![step] = "pod_not_found"]
              /\ UNCHANGED <<steps, consul_pods, untouched>>

JobPhases == {"Succeeded", "Failed", "Running"}

\* variant: the wait ends on any finished phase, Failed included
WaitJob_any_end(here, there, step) ==
    /\ pc = here
    /\ \E phase \in JobPhases :
         /\ pc' = IF phase = "Running" THEN here ELSE there
         /\ outcome' = [outcome EXCEPT ![step] = IF phase = "Running" THEN @ ELSE phase]
         /\ UNCHANGED <<steps, consul_pods, poll_attempt, untouched>>

\* one iteration of "while True" waiting for the job's pod: Succeeded reads
\* the pod's status line and breaks, Failed and any command failure exit,
\* any other phase sleeps and asks again; then countdown(60)
WaitJob(here, there, step) ==
    /\ pc = here
    /\ \E kind \in ListingKinds, phase \in JobPhases, status_ok \in BOOLEAN :
         LET exc == IF kind # "ok" THEN ListingError(kind)
                    ELSE IF phase = "Succeeded" THEN RunException(status_ok)
                    ELSE "none"
         IN IF exc \notin job_wait_caught \cup {"none"} THEN Raise
            ELSE /\ IF exc # "none"
                    THEN Exit(step, "status_unreadable")
                    ELSE IF phase = "Failed"
                    THEN Exit(step, "Failed")
                    ELSE /\ pc' = IF phase = "Succeeded" THEN there ELSE here
                         /\ outcome' = [outcome EXCEPT ![step] =
                                           IF phase = "Succeeded" THEN "Succeeded" ELSE @]
                         /\ UNCHANGED <<steps, consul_pods, poll_attempt>>
                 /\ UNCHANGED untouched

\* list_running_pods: kubectl get pods without check=True, sys.exit(1) on a
\* non-zero return code; then the step returns
ListRunningPods(here, step) ==
    /\ pc = here
    /\ \E ok \in BOOLEAN :
         IF ok
         THEN Return(step) /\ UNCHANGED <<consul_pods, poll_attempt, outcome>>
         ELSE Exit(step, "list_failed")
    /\ UNCHANGED untouched

StopCreateJob == CreateJob("stop_create", "stop_find", "stop")
StopFindPod == FindJobPod("stop_find", "stop_wait", "stop")
StopWait == WaitJob("stop_wait", "stop_pushgateway", "stop")

\* stop_sas_environment: the prometheus-pushgateway pods to leave alone; a
\* failed command is tolerated, unparsable output is not caught
StopPushgateway ==
    /\ pc = "stop_pushgateway"
    /\ \E kind \in ListingKinds :
         IF ListingError(kind) \notin pushgateway_caught \cup {"none"} THEN Raise
         ELSE /\ pc' = "stop_stuck"
              /\ UNCHANGED <<steps, consul_pods, poll_attempt, outcome, untouched>>

\* stop_sas_environment: list all pods, force-delete the stuck ones (a failed
\* delete is printed and the loop goes on)
StopStuckPods ==
    /\ pc = "stop_stuck"
    /\ \E kind \in ListingKinds :
         IF ListingError(kind) \notin stuck_pods_caught \cup {"none"} THEN Raise
         ELSE /\ IF kind = "ok"
                 THEN /\ pc' = "stop_list"
                      /\ UNCHANGED <<steps, consul_pods, poll_attempt, outcome>>
                 ELSE Exit("stop", "list_failed")
              /\ UNCHANGED untouched

StopListPods == ListRunningPods("stop_list", "stop")

\* delete_jobs: list the jobs, delete those matching job_patterns (a failed
\* delete is printed and the loop goes on)
DeleteJobs ==
    /\ pc = "delete_jobs"
    /\ \E kind \in ListingKinds :
         IF ListingError(kind) \notin delete_jobs_caught \cup {"none"} THEN Raise
         ELSE /\ IF kind = "ok"
                 THEN /\ Return("delete_jobs")
                      /\ outcome' = [outcome EXCEPT !["delete_jobs"] = "complete"]
                      /\ UNCHANGED <<consul_pods, poll_attempt>>
                 ELSE Exit("delete_jobs", "list_failed")
              /\ UNCHANGED untouched

StartCreateJob == CreateJob("start_create", "start_find", "start")
StartFindPod == FindJobPod("start_find", "start_wait", "start")
StartWait == WaitJob("start_wait", "start_list", "start")
StartListPods == ListRunningPods("start_list", "start")

\* main() calls backup_consul_raft
InitMain ==
    /\ pc = "backup_list"
    /\ result = NoResult
    /\ steps = <<"backup">>
    /\ outcome = NotRun
    /\ Fresh

NextMain ==
    \/ BackupList
    \/ BackupPods
    \/ StopCreateJob
    \/ StopFindPod
    \/ StopWait
    \/ StopPushgateway
    \/ StopStuckPods
    \/ StopListPods
    \/ DeleteJobs
    \/ StartCreateJob
    \/ StartFindPod
    \/ StartWait
    \/ StartListPods
    \/ Next

SpecMain == InitMain /\ [][NextMain]_vars

\* ------------------------------------- check_consul_health on every listing

\* one call of check_consul_health on a listing drawn from HealthInputs
InitHealth ==
    /\ pc = "health_input"
    /\ result \in HealthInputs(MaxPods, MaxContainers)
    /\ steps = <<>>
    /\ outcome = NotRun
    /\ Fresh

ApplyHealth ==
    /\ pc = "health_input"
    /\ LET out == check_consul_health(result) IN
       IF out.raised THEN Raise
       ELSE /\ all_healthy' = out.all_healthy
            /\ current_statuses' = out.pod_statuses
            /\ health_log' = Append(health_log, out.all_healthy)
            /\ status_log' = Append(status_log, out.pod_statuses)
            /\ pc' = "health_output"
            /\ UNCHANGED <<attempt, initial_statuses, remediation_performed, result,
                           locals, remediate_calls, scale_cmds, helper_creates, trace,
                           comparison_printed, probes, outer, monitoring>>

NextHealth == ApplyHealth

SpecHealth == InitHealth /\ [][NextHealth]_vars

\* ------------------------------------------------------------ properties

Done == pc \in {"done_healthy", "done_unhealthy"}

\* C1: one run of verify_consul_pods performs at most max_retries + 1 (= 2)
\* health checks, whatever the checks return and whatever fails in remediation.
C1_HealthChecksBounded == Len(health_log) <= max_retries + 1

C1_Witness == pc = "done_unhealthy" /\ Len(health_log) = max_retries + 1

\* C2: when both health checks of a run return all_healthy = FALSE, the run
\* ends with exactly one remediation performed, unhealthy, and two health checks.
C2_OneRemediationWhenNeverHealthy ==
    (Done /\ health_log = <<FALSE, FALSE>>)
        => (remediate_calls = 1 /\ pc = "done_unhealthy" /\ Len(health_log) = 2)

\* C3: in every reachable state the number of remediations started so far is
\* at most max_retries + 1 (= 2).
C3_RemediationsBounded == remediate_calls <= max_retries + 1

C3_Witness == pc = "scale_down" /\ remediate_calls = max_retries + 1

\* C4: every remediation is followed by a fresh health check before the run
\* terminates: the return of remediate_consul never leads out of the loop.
C4_RemediationThenHealthCheck ==
    [][pc = "rem_return" => pc' = "check"]_vars

\* C5: if the first health check returns all_healthy = TRUE the run ends healthy
\* with no remediation, no scale command and no helper pod creation.
C5_HealthyImmediately ==
    (Len(health_log) >= 1 /\ health_log[1])
        => /\ (pc \in {"checked", "exit_loop", "done_healthy"} \/ InMonitor)
           /\ all_healthy
           /\ health_log = <<TRUE>>
           /\ remediate_calls = 0
           /\ ~remediation_performed
           /\ scale_cmds = 0
           /\ helper_creates = 0

C5_Witness == pc = "done_healthy" /\ health_log = <<TRUE>> /\ remediate_calls = 0

\* C6: if the first health check returns FALSE and the second TRUE, then
\* remediate_consul ran exactly once, over all 3 claims (each had its helper pod
\* applied, between one scale-down and one scale-up), and the run ends healthy.
C6_RemediationFixesIt ==
    /\ (pc = "rem_return") =>
          \A i \in 1..3 : <<"processing", i>> \in printed
    /\ (Done /\ health_log = <<FALSE, TRUE>>)
          => /\ pc = "done_healthy"
             /\ remediate_calls = 1
             /\ helper_creates = 3
             /\ scale_cmds = 2

C6_Witness ==
    pc = "done_healthy" /\ health_log = <<FALSE, TRUE>> /\ helper_creates = 3

EmptyListing == result.kind = "ok" /\ result.items = <<>>

\* C7: a listing with zero pods makes check_consul_health return (FALSE, [])
\* without raising, and the loop treats it as any failed health check: it goes on
\* to remediate_consul, as it does for every all_healthy = FALSE.
C7_ZeroPodsIsUnhealthy ==
    /\ [](pc # "raised")
    /\ []((pc = "checked" /\ EmptyListing) => (~all_healthy /\ current_statuses = <<>>))
    /\ [][(pc = "checked" /\ (EmptyListing \/ ~all_healthy))
            => (pc' = "scale_down" /\ remediate_calls' = remediate_calls + 1
                /\ remediation_performed')]_vars

C7_Witness == pc = "scale_down" /\ EmptyListing /\ remediate_calls = 1

\* terminalReason = None: no container is waiting in CrashLoopBackOff or
\* terminated with a non-zero exit code
NoTerminalReason(pod) ==
    \A i \in 1..Len(pod.containerStatuses) :
        pod.containerStatuses[i].state
            \notin {"waiting_CrashLoopBackOff", "terminated_nonzero"}

HealthyPod(pod) ==
    /\ Cardinality({i \in 1..Len(pod.containerStatuses) : pod.containerStatuses[i].ready})
         = Len(pod.containerStatuses)
    /\ pod.phase = "Running"
    /\ NoTerminalReason(pod)

EveryPodHealthy == \A i \in 1..Len(result.items) : HealthyPod(result.items[i])

\* C8 as stated: for all pod lists, all_healthy is TRUE iff every pod has
\* readyContainers = totalContainers, phase Running and terminalReason None.
C8_AllHealthyIffEveryPod ==
    (pc = "health_output" /\ result.kind = "ok") => (all_healthy <=> EveryPodHealthy)

\* C8 amended: for all non-empty pod lists, all_healthy is TRUE iff every pod has
\* readyContainers = totalContainers, phase Running and terminalReason None; for
\* the empty list all_healthy is FALSE.
C8_AllHealthyIffEveryPodNonEmpty ==
    (pc = "health_output" /\ result.kind = "ok")
        => /\ (result.items # <<>>) => (all_healthy <=> EveryPodHealthy)
           /\ (result.items = <<>>) => ~all_healthy

C8_Witness ==
    /\ pc = "health_output"
    /\ Len(result.items) = 2
    /\ all_healthy
    /\ Len(current_statuses) = 2

FailedListing == result.kind \in {"nonzero", "badjson"}

\* C9: when the pod listing exits non-zero or prints malformed JSON,
\* check_consul_health returns (FALSE, []) and does not raise, and the loop
\* takes its unhealthy branch (remediate_consul) instead of aborting.
C9_FailedListingIsUnhealthy ==
    /\ [](pc # "raised")
    /\ []((pc = "checked" /\ FailedListing) => (~all_healthy /\ current_statuses = <<>>))
    /\ [][(pc = "checked" /\ FailedListing) => pc' = "scale_down"]_vars

C9_Witness == pc = "scale_down" /\ result.kind = "badjson" /\ remediate_calls = 1

\* the success lines of claim i: helper pod created, Running, raft.db deleted,
\* helper pod deleted
Processed(i) ==
    {<<"created", i>>, <<"running", i>>, <<"raft_deleted", i>>, <<"pod_deleted", i>>}
        \subseteq printed

ErrorsAbout(i) == {k \in 1..Len(pvc_errors) : pvc_errors[k][2] = pvc_names[i]}

ClaimOf(k) == CHOOSE i \in 1..Len(pvc_names) : pvc_errors[k][2] = pvc_names[i]

Blank == " "
TimeoutMessage == "Error: Command timed out after 10 seconds"
ExceptionMessage == "Error: {e}"
Tokens == {Blank, "out", TimeoutMessage}

Strings(n) == SeqsUpTo(Tokens, n)

\* str.strip(): leading and trailing blanks removed
RECURSIVE lstrip(_)
lstrip(str) ==
    IF str # <<>> /\ Head(str) = Blank THEN lstrip(Tail(str)) ELSE str

RECURSIVE rstrip(_)
rstrip(str) ==
    IF str # <<>> /\ str[Len(str)] = Blank
    THEN rstrip(SubSeq(str, 1, Len(str) - 1)) ELSE str

strip(str) == rstrip(lstrip(str))

\* what subprocess.run(..., check=True, timeout=timeout) can do: complete with
\* exit status 0, complete with a non-zero status (CalledProcessError), run
\* out of time (TimeoutExpired, with the output read so far), or fail to
\* start (OSError)
ExecOutcomes(n, codes) ==
    [kind : {"completed"}, stdout : Strings(n), stderr : Strings(n), returncode : {0}]
    \cup [kind : {"CalledProcessError"}, stdout : Strings(n), stderr : Strings(n),
          returncode : 1..codes]
    \cup [kind : {"TimeoutExpired"}, stdout : Strings(n), stderr : {<<>>},
          returncode : {0}]
    \cup [kind : {"OSError"}, stdout : {<<>>}, stderr : {<<>>}, returncode : {0}]

Returns(out, err, code) == [stdout |-> out, stderr |-> err, returncode |-> code, set |-> TRUE]

\* variant: the timeout branch hands back the output read so far
run_command_partial(res) ==
    CASE res.kind = "completed" -> Returns(strip(res.stdout), strip(res.stderr), 0)
      [] res.kind = "TimeoutExpired" -> Returns(strip(res.stdout), <<TimeoutMessage>>, 1)
      [] res.kind = "CalledProcessError" ->
            Returns(strip(res.stdout), strip(res.stderr), res.returncode)
      [] OTHER -> Returns(<<>>, <<ExceptionMessage>>, 1)

\* run_command: the (stdout, stderr, returncode) triple of each branch
run_command(res) ==
    CASE res.kind = "completed" -> Returns(strip(res.stdout), strip(res.stderr), 0)
      [] res.kind = "TimeoutExpired" -> Returns(<<>>, <<TimeoutMessage>>, 1)
      [] res.kind = "CalledProcessError" ->
            Returns(strip(res.stdout), strip(res.stderr), res.returncode)
      [] OTHER -> Returns(<<>>, <<ExceptionMessage>>, 1)

\* one call of run_command on an outcome drawn from ExecOutcomes
InitExec ==
    /\ pc = "exec_input"
    /\ result \in ExecOutcomes(MaxOutput, MaxCode)
    /\ steps = <<>>
    /\ outcome = NotRun
    /\ Fresh

ApplyRunCommand ==
    /\ pc = "exec_input"
    /\ returned' = run_command(result)
    /\ pc' = "exec_output"
    /\ UNCHANGED <<orch, result, locals, counts, trace, report, probes, steps, consul_pods,
                   outcome, monitoring>>

NextExec == ApplyRunCommand

SpecExec == InitExec /\ [][NextExec]_vars

\* ---------------------------------------------------------------------------
\* remediate_consul: isolation, ordering, clean-up
\* ---------------------------------------------------------------------------

Range(f) == {f[k] : k \in DOMAIN f}

InClaimLoop ==
    pc \in {"create_helper", "poll", "timeout_delete", "list_before", "delete_raft",
            "list_after", "delete_helper"}

AfterClaimLoop == pc \in {"scale_up", "rem_return"}

Started(i) == <<"create", i>> \in Range(events)

Ended(i) == <<"end", i>> \in Range(events)

\* C11: within one remediate_consul call every claim of pvc_names is started
\* whatever failed for the earlier claims: while claim k is being processed all
\* claims before k were started and have ended, after the loop all claims
\* were started and have ended, and every ended claim that failed has an error
\* in pvc_errors.
C11_EveryClaimStarted ==
    /\ InClaimLoop =>
          /\ pvc_idx \in 1..Len(pvc_names)
          /\ \A j \in 1..(pvc_idx - 1) : Started(j) /\ Ended(j)
    /\ AfterClaimLoop => \A i \in 1..Len(pvc_names) : Started(i) /\ Ended(i)
    /\ \A i \in 1..Len(pvc_names) :
          (Ended(i) /\ ~Processed(i)) => ErrorsAbout(i) # {}

\* the third claim is reached after claim 1 failed at creation and claim 2
\* timed out, and itself fails the raft.db removal and the pod deletion
C11_Witness ==
    /\ pc = "rem_return"
    /\ pvc_errors = <<<<"create", pvc_names[1]>>, <<"timeout", pvc_names[2]>>,
                      <<"raft", pvc_names[3]>>, <<"delete_pod", pvc_names[3]>>>>
    /\ \A i \in 1..Len(pvc_names) : Started(i)

\* the scale commands, the helper pod creations and the ends of the
\* iterations, in the order they happened
OrderEvents == SelectSeq(events, LAMBDA e : e[1] \in {"scale", "create", "end"})

ExpectedOrder ==
    <<<<"scale", 0>>>>
    \o <<<<"create", 1>>, <<"end", 1>>>>
    \o <<<<"create", 2>>, <<"end", 2>>>>
    \o <<<<"create", 3>>, <<"end", 3>>>>
    \o <<<<"scale", replicas>>>>

IsPrefix(a, b) == Len(a) <= Len(b) /\ a = SubSeq(b, 1, Len(a))

\* C12: inside one remediate_consul call the scale-to-zero command comes
\* first, then for each claim in the order of pvc_names its helper pod
\* creation and the end of its processing, and the scale-up command comes last:
\* the events so far are always a prefix of that order, and the whole order
\* when remediate_consul returns.  No scale-up is issued while a claim is
\* being processed.
C12_RemediationOrder ==
    /\ IsPrefix(OrderEvents, ExpectedOrder)
    /\ (pc = "rem_return") => OrderEvents = ExpectedOrder
    /\ InClaimLoop => <<"scale", replicas>> \notin Range(events)
    /\ InClaimLoop => OrderEvents[1] = <<"scale", 0>>

C12_Witness ==
    /\ pc = "rem_return"
    /\ OrderEvents = ExpectedOrder
    /\ pvc_errors # <<>>
    /\ Processed(3)

\* C16: removing raft.db from a claim where the file is already absent: when
\* the exec reaches the helper pod the removal succeeds as on a claim that
\* holds the file: the success line is printed, no retry and no error follow,
\* and the file is absent afterwards.
C16_RemovalIdempotent ==
    (last_rm.ran /\ last_rm.exec_ok) =>
        /\ pc = "list_after"
        /\ retry_attempt = 0
        /\ <<"raft_deleted", pvc_idx>> \in printed
        /\ ~last_rm.after
        /\ <<"raft", pvc_names[pvc_idx]>> \notin Range(pvc_errors)

\* the second remediation removes raft.db from a claim that no longer holds it
C16_Witness ==
    /\ remediate_calls = 2
    /\ pc = "list_after"
    /\ last_rm.ran
    /\ last_rm.exec_ok
    /\ ~last_rm.before
    /\ ~last_rm.after
    /\ ErrorsAbout(pvc_idx) = {}

\* some command of the running remediate_consul failed
CommandFailed ==
    \/ <<"scaled_down", 0>> \notin printed
    \/ <<"force_delete_failed", 0>> \in printed
    \/ \E i \in 1..Len(pvc_names) : ~Processed(i)
    \/ <<"scaled_up", 0>> \notin printed

\* C18: whenever a command of remediate_consul failed (scale-down, force-delete
\* of a lingering pod, helper pod creation, helper pod never Running, raft.db
\* removal, helper pod deletion, scale-up), pvc_errors is non-empty when
\* remediate_consul returns.
C18_FailureRecorded ==
    (pc = "rem_return" /\ CommandFailed) => pvc_errors # <<>>

\* C19: every remediate_consul call issues the scale-up to 3 replicas exactly
\* once, after every claim has ended, and then waits the settle period, whether
\* the scale-up or anything before it failed; no scale-up is issued earlier.
C19_ScaleUpOnceThenWait ==
    /\ (pc = "rem_return") =>
          /\ Len(events) >= 2
          /\ events[Len(events) - 1] = <<"scale", replicas>>
          /\ events[Len(events)] = <<"wait", settle_seconds>>
          /\ Cardinality({k \in 1..Len(events) : events[k] = <<"scale", replicas>>}) = 1
          /\ \A i \in 1..Len(pvc_names) : Ended(i)
    /\ (pc # "rem_return") => <<"scale", replicas>> \notin Range(events)
    /\ (pc \in {"scale_down", "lingering", "force_delete"} \/ InClaimLoop \/ AfterClaimLoop)
          => scale_cmds = 2 * (remediate_calls - 1) + Len(SelectSeq(events,
                                LAMBDA e : e[1] = "scale"))

\* scale-down failed, a lingering pod could not be deleted, a claim failed and
\* the scale-up failed
C19_Witness ==
    /\ pc = "rem_return"
    /\ <<"scaled_down", 0>> \notin printed
    /\ <<"force_delete_failed", 0>> \in printed
    /\ <<"scaled_up", 0>> \notin printed
    /\ ~Processed(2)
    /\ events[Len(events)] = <<"wait", settle_seconds>>

Position(e) == CHOOSE k \in 1..Len(events) : events[k] = e

\* C20: for every claim whose processing has ended, a force-delete of its
\* helper pod was issued exactly when the helper pod was created, and then
\* between the creation and the end of the claim's processing; this holds on
\* the timeout path and on the normal path.
C20_HelperPodDeleted ==
    \A i \in 1..Len(pvc_names) :
        Ended(i) =>
            /\ (<<"created", i>> \in printed) <=> (<<"delete_helper", i>> \in Range(events))
            /\ (<<"created", i>> \in printed) =>
                  /\ Position(<<"create", i>>) < Position(<<"delete_helper", i>>)
                  /\ Position(<<"delete_helper", i>>) < Position(<<"end", i>>)

\* claim 1 fails at creation, claim 2 times out, claim 3 takes the normal path
C20_Witness ==
    /\ pc = "scale_up"
    /\ <<"created", 1>> \notin printed
    /\ <<"delete_helper", 1>> \notin Range(events)
    /\ <<"timeout", pvc_names[2]>> \in Range(pvc_errors)
    /\ <<"delete_helper", 2>> \in Range(events)
    /\ <<"running", 3>> \in printed
    /\ <<"delete_helper", 3>> \in Range(events)

\* ---------------------------------------------------------------------------
\* verify_consul_pods inside main()
\* ---------------------------------------------------------------------------

\* C13: verify_consul_pods never ends the process: whatever the health checks
\* return and whichever commands fail, no exception leaves it, sys.exit is not
\* called, and main() goes on to monitor_pods, also when consul is still
\* unhealthy after the retries.
C13_VerifyNeverFatal ==
    /\ [](pc \notin {"raised", "exited"})
    /\ <>(pc = "monitor")

\* monitor_pods is reached with consul unhealthy after two remediations
C13_Witness ==
    /\ pc = "monitor"
    /\ ~all_healthy
    /\ health_log = <<FALSE, FALSE>>
    /\ remediate_calls = 2

VerifyReturned == pc \in {"exit_loop", "done_healthy", "done_unhealthy"} \/ InMonitor

\* C14 as stated: the comparison table is produced on every terminal outcome,
\* whether or not remediation occurred.
C14_ComparisonAlways ==
    VerifyReturned =>
        /\ initial_statuses = status_log[1]
        /\ current_statuses = status_log[Len(status_log)]
        /\ comparison_printed

\* C14, amended: when the loop is left, initial_statuses holds the statuses of
\* the first health check and current_statuses those of the last one; the
\* comparison table is printed exactly when the last health check was healthy,
\* a remediation was performed and both status lists are non-empty.
C14_ComparisonAfterRemediation ==
    /\ (Len(status_log) >= 1 /\ pc # "checked") => initial_statuses = status_log[1]
    /\ VerifyReturned =>
          /\ initial_statuses = status_log[1]
          /\ current_statuses = status_log[Len(status_log)]
          /\ comparison_printed <=>
                (all_healthy /\ remediate_calls >= 1
                   /\ initial_statuses # <<>> /\ current_statuses # <<>>)

\* the table is printed after a remediation, with different statuses before
\* and after
C14_Witness ==
    /\ pc = "done_healthy"
    /\ comparison_printed
    /\ Len(status_log) = 2
    /\ initial_statuses = status_log[1]
    /\ current_statuses = status_log[2]
    /\ initial_statuses # current_statuses

StatedOrder == <<"stop", "backup", "delete_jobs", "start", "verify", "monitor">>

CodeOrder == <<"backup", "stop", "delete_jobs", "start", "verify", "monitor">>

InStop ==
    pc \in {"stop_create", "stop_find", "stop_wait", "stop_pushgateway", "stop_stuck",
            "stop_list"}

\* C15 as stated: the steps run in the order stop, backup, delete jobs, start,
\* verify, monitor: the stop step runs before the backup step is called.
C15_StopBeforeBackup ==
    /\ InStop => "backup" \notin Range(steps)
    /\ (pc = "monitor") => steps = StatedOrder

\* C15, amended: main() runs the steps in the order backup, stop, delete jobs,
\* start, verify (with its remediation and retry), monitor; each step is called
\* only after the one before it returned, so the backup is taken while consul
\* is still running and the stop step follows it.
C15_BackupBeforeStop ==
    /\ IsPrefix(steps, CodeOrder)
    /\ InMonitor => steps = CodeOrder
    /\ pc \in {"backup_list", "backup_pods"} => steps = <<"backup">>
    /\ InStop => steps = <<"backup", "stop">>
    /\ (pc = "delete_jobs") => steps = SubSeq(CodeOrder, 1, 3)

C15_Witness ==
    /\ pc = "monitor"
    /\ steps = CodeOrder
    /\ remediate_calls >= 1

\* ---------------------------------------------------------------------------
\* run_command
\* ---------------------------------------------------------------------------

\* the values run_command returns for commands that ended with a non-zero
\* exit status
NonZeroReturns ==
    {run_command(o) : o \in {x \in ExecOutcomes(MaxOutput, MaxCode) :
                                x.kind = "CalledProcessError"}}

\* C17 as stated: a timed-out command is reported as a distinct kind of error
\* and not as a command result: nothing with stdout and an exit code is
\* returned, and the report differs from that of every non-zero exit.
C17_TimeoutIsDistinctKind ==
    (pc = "exec_output" /\ result.kind = "TimeoutExpired") =>
        /\ ~returned.set
        /\ returned \notin NonZeroReturns

\* C17, amended: a timed-out command is reported as an ordinary
\* (stdout, stderr, returncode) triple: empty stdout (the output read before
\* the timeout is dropped), the timeout message as stderr and return code 1;
\* it is the triple of a command that wrote that message to stderr and exited
\* with status 1.
C17_TimeoutIsTriple ==
    (pc = "exec_output" /\ result.kind = "TimeoutExpired") =>
        /\ returned = Returns(<<>>, <<TimeoutMessage>>, 1)
        /\ returned \in NonZeroReturns

\* a command that had written output timed out
C17_Witness ==
    /\ pc = "exec_output"
    /\ result.kind = "TimeoutExpired"
    /\ strip(result.stdout) # <<>>
    /\ returned.set
    /\ returned.stdout = <<>>
    /\ returned.returncode = 1

\* ---------------------------------------------------------------------------
\* remediate_consul: the waits and the pods left behind
\* ---------------------------------------------------------------------------

\* C21: the wait for a helper pod polls at most max_attempts (30) times; the
\* timeout path is taken exactly when the 30th poll and every poll before it
\* did not see phase Running (a failed or unparsable poll counts as not
\* Running); a poll that sees Running, the 30th included, goes on to the
\* raft.db removal and records no timeout.
C21_PollBound ==
    /\ poll_attempt <= max_attempts
    /\ last_poll.n <= max_attempts
    /\ (pc = "poll") => (poll_attempt < max_attempts /\ ~last_poll.running
                           /\ last_poll.n = poll_attempt)
    /\ (pc = "timeout_delete") =>
          /\ last_poll.n = max_attempts
          /\ ~last_poll.running
          /\ <<"running", pvc_idx>> \notin printed
          /\ pvc_errors[Len(pvc_errors)] = <<"timeout", pvc_names[pvc_idx]>>
    /\ (pc = "list_before") =>
          /\ last_poll.n \in 1..max_attempts
          /\ last_poll.running
          /\ <<"running", pvc_idx>> \in printed
          /\ <<"timeout", pvc_names[pvc_idx]>> \notin Range(pvc_errors)

\* the helper pod is seen Running on the 30th poll
C21_Witness ==
    /\ pc = "list_before"
    /\ last_poll.n = max_attempts
    /\ last_poll.running
    /\ ErrorsAbout(pvc_idx) = {}

\* C22: every consul pod listed after the termination wait gets one
\* force-delete command, whether or not the force-deletes before it failed,
\* and the claim loop is entered afterwards.
C22_LingeringAllDeleted ==
    /\ lingering.failed <= lingering.issued
    /\ (pc = "force_delete") =>
          /\ linger_left >= 1
          /\ lingering.issued + linger_left = lingering.found
    /\ (pc = "init_claims") =>
          /\ linger_left = 0
          /\ lingering.issued = lingering.found

\* two pods were listed, both got their force-delete, the first one failed
C22_Witness ==
    /\ pc = "init_claims"
    /\ lingering.found = MaxLingering
    /\ lingering.issued = MaxLingering
    /\ lingering.failed >= 1

CountFalse(log) == Cardinality({k \in DOMAIN log : ~log[k]})

\* C23: verify_consul_pods terminates whatever the commands do: at most
\* max_retries + 1 (2) health checks, at most max_attempts (30) polls per
\* helper pod, at most 3 attempts per raft.db removal, and the end of the
\* function (healthy or unhealthy) is always reached.
C23_VerifyTerminates ==
    /\ [](/\ Len(health_log) <= max_retries + 1
          /\ last_poll.n <= max_attempts
          /\ poll_attempt <= max_attempts
          /\ retry_attempt < raft_max_retries)
    /\ <>Done

\* the end is reached after a remediation and a second, healthy check
C23_Witness ==
    /\ pc = "done_healthy"
    /\ health_log = <<FALSE, TRUE>>
    /\ remediate_calls = 1

\* C25: the number of remediate_consul calls equals the number of health
\* checks that returned all_healthy = False, the last one the loop allows
\* included.
C25_RemediationPerUnhealthyCheck ==
    /\ remediate_calls <= CountFalse(health_log)
    /\ (pc # "checked") => remediate_calls = CountFalse(health_log)

C25_Witness ==
    /\ pc = "done_unhealthy"
    /\ health_log = <<FALSE, FALSE>>
    /\ remediate_calls = 2
    /\ attempt = 2

\* C26: when the scale-to-zero command failed, remediate_consul creates no
\* helper pod and removes no raft.db.
C26_NoRepairWithoutScaleDown ==
    (events # <<>> /\ <<"scaled_down", 0>> \notin printed) =>
        /\ \A i \in 1..Len(pvc_names) : ~Started(i)
        /\ \A i \in 1..Len(pvc_names) : <<"raft_deleted", i>> \notin printed

\* C27: when the scale-up command is issued, every helper pod created by this
\* remediate_consul call has been deleted.
C27_NoHelperAtScaleUp ==
    (pc = "scale_up") =>
        \A i \in 1..Len(pvc_names) :
            (<<"created", i>> \in printed) => (<<"pod_deleted", i>> \in printed)

\* ---------------------------------------------------------------------------
\* check_consul_health: the status of one pod
\* ---------------------------------------------------------------------------

Deciding(c) == c.state \in {"waiting_CrashLoopBackOff", "terminated_nonzero"}

\* the containers of cs that decide, none of the earlier ones deciding
FirstDeciding(cs) ==
    {i \in 1..Len(cs) : Deciding(cs[i]) /\ \A j \in 1..(i - 1) : ~Deciding(cs[j])}

ExpectedStatus(pod) ==
    LET cs == pod.containerStatuses IN
    IF FirstDeciding(cs) = {} THEN pod_phase(pod)
    ELSE LET k == CHOOSE i \in FirstDeciding(cs) : TRUE IN
         IF cs[k].state = "waiting_CrashLoopBackOff" THEN "CrashLoopBackOff" ELSE "Error"

\* C24: the status of a pod is decided by the first container, in
\* containerStatuses order, that is waiting with reason CrashLoopBackOff
\* (status CrashLoopBackOff) or terminated with a non-zero exit code (status
\* Error); the containers after it are not looked at, and the status is the
\* pod phase when no container is in either state.
C24_FirstDecidingContainer ==
    (pc = "health_output" /\ result.kind = "ok") =>
        /\ Len(current_statuses) = Len(result.items)
        /\ \A i \in 1..Len(result.items) :
              current_statuses[i][3] = ExpectedStatus(result.items[i])

\* a container terminated with a non-zero exit code comes before one in
\* CrashLoopBackOff: the status is Error
C24_Witness ==
    /\ pc = "health_output"
    /\ Len(result.items) = 1
    /\ Len(result.items[1].containerStatuses) = 2
    /\ result.items[1].containerStatuses[1].state = "terminated_nonzero"
    /\ result.items[1].containerStatuses[2].state = "waiting_CrashLoopBackOff"
    /\ current_statuses[1][3] = "Error"

\* ---------------------------------------------------------------------------
\* main(): what each step requires of the one before it
\* ---------------------------------------------------------------------------

BackupFailures == {"list_failed", "no_running_pods", "backup_failed"}

\* nothing after the given steps was called, no health check and no
\* remediation command was issued
NothingAfter(called) ==
    /\ steps = called
    /\ health_log = <<>>
    /\ remediate_calls = 0
    /\ scale_cmds = 0
    /\ helper_creates = 0
    /\ events = <<>>

\* C28: the stop job is created only after raft.db was backed up on every
\* Running consul pod: when the pod listing fails, no Running consul pod is
\* found or the backup fails on a pod, the process exits inside
\* backup_consul_raft and the stop, delete-jobs, start and verify steps are
\* never called.
C28_StopOnlyAfterBackup ==
    /\ ("stop" \in Range(steps)) => outcome.backup = "complete"
    /\ (outcome.backup \in BackupFailures) =>
          /\ pc = "exited"
          /\ NothingAfter(<<"backup">>)
          /\ outcome.stop = "pending"
          /\ outcome.start = "pending"

\* the backup failed on a pod and the process exited
C28_Witness ==
    /\ pc = "exited"
    /\ outcome.backup = "backup_failed"
    /\ steps = <<"backup">>

StartFailures == {"create_failed", "pod_not_found", "Failed", "status_unreadable"}

\* C29: verify_consul_pods is called only after the start job's pod was seen
\* in phase Succeeded: when the start job cannot be created, its pod is not
\* found within 30 polls, the pod is Failed or its status cannot be read, the
\* process exits inside start_viya_environment, without a health check or a
\* remediation.
C29_VerifyOnlyAfterStart ==
    /\ ("verify" \in Range(steps)) => outcome.start = "Succeeded"
    /\ (Len(health_log) >= 1 \/ remediate_calls >= 1) => outcome.start = "Succeeded"
    /\ (outcome.start \in StartFailures) =>
          /\ pc = "exited"
          /\ NothingAfter(<<"backup", "stop", "delete_jobs", "start">>)

\* the start job's pod was not found in 30 polls
C29_Witness ==
    /\ pc = "exited"
    /\ outcome.start = "pod_not_found"
    /\ outcome.stop = "Succeeded"
    /\ health_log = <<>>

\* ---------------------------------------------------------------------------
\* monitor_pods
\* ---------------------------------------------------------------------------

\* C30: the monitoring loop ends with "No Pending pods remaining" only after
\* a poll that listed the namespace's pods and found none in phase Pending; a
\* poll that failed, timed out or could not be parsed never ends the loop.
C30_MonitorEndsOnCleanPoll ==
    (pc = "monitor_done") =>
        /\ fetched.kind = "ok"
        /\ fetched.pending = 0

====
